---- MODULE Spec2Model ----
(***************************************************************************)
(* Model of the AI dashboard of the project/task tracker (AIDashboard in   *)
(* src/unnamed/part_000, lines 282-640) and of the records it analyses.    *)
(*                                                                         *)
(* Representation choices                                                  *)
(*  - A JavaScript value that may be null/absent is a sequence of length   *)
(*    0 (null) or 1 (the value): due dates, insights, React state.         *)
(*  - An absent field of an insight (insight.priority, insight.deadline)   *)
(*    is the label "none".                                                 *)
(*  - Time is counted in ticks, TicksPerDay ticks to the day.  A due date  *)
(*    is a date-only string, which `new Date(due)` reads as midnight of    *)
(*    that day: tick due * TicksPerDay.  `new Date()` is the tick `now`.   *)
(*  - A number printed with toFixed(1) is the integer number of tenths     *)
(*    ("30.0" is 300).                                                     *)
(***************************************************************************)
EXTENDS Integers, Sequences, FiniteSets, TLC

VARIABLES
    projects,             \* the `projects` prop of AIDashboard
    now,                  \* the instant `new Date()` returns, in ticks
    loading,              \* useState(false)
    insights,             \* useState(null): <<>> or <<[taskInsights, summary]>>
    calls,                \* the getAIInsights promises of the fan-out, by task index
    taskInsights,         \* the result array of Promise.all, by task index
    pcInsights,           \* position of generateProjectInsights
    aiRecommendations,    \* useState([])
    riskAlerts,           \* useState([])
    productivityInsights, \* useState(null)
    teamInsights,         \* useState(null)
    pcAdvanced,           \* position of generateAdvancedAIInsights
    alertIdx,             \* index of the task generateRiskAlerts is awaiting (0: none)
    alertCalls,           \* the getAIInsights promises of generateRiskAlerts, by task index
    alerts,               \* the local `alerts` array of generateRiskAlerts
    earlier,              \* the runs of an effect that a later one superseded
    newTask,              \* ProjectDetail: useState({title: '', ...})
    showAddTask,          \* ProjectDetail: useState(false)
    pcDetail,             \* "addTask" when the handler that ran last was addTask
    riskCall              \* a getDeadlineRisk promise and its request

vars == <<projects, now, loading, insights, calls, taskInsights, pcInsights,
          aiRecommendations, riskAlerts, productivityInsights, teamInsights,
          pcAdvanced, alertIdx, alertCalls, alerts, earlier, newTask,
          showAddTask, pcDetail, riskCall>>

insightVars == <<loading, insights, calls, taskInsights, pcInsights>>

advancedVars == <<aiRecommendations, riskAlerts, productivityInsights,
                  teamInsights, pcAdvanced, alertIdx, alertCalls, alerts>>

\* What the runs of the dashboard's latest effect leave alone.
outsideVars == <<earlier, newTask, showAddTask, pcDetail, riskCall>>

----------------------------------------------------------------------------
(* Bounds of the model *)

MaxProjects == 2
MaxTasks == 2
MaxInsights == 2
MaxAlertTasks == 2
MaxRecTasks == 6
MaxRateTasks == 6
MaxTeamProjects == 2
MaxTeamTasks == 2
MaxScoreTasks == 10
MaxCycleTasks == 2
MaxDetailProjects == 2
MaxDetailTasks == 2
MaxTaskId == 3

(* Program constants *)

TicksPerDay == 2
WorkloadThreshold == 5
LowCompletionThreshold == 30
UpcomingDays == 3
CollaborationThreshold == 3

----------------------------------------------------------------------------
(* Data *)

Null == << >>

Some(v) == << v >>

Statuses == {"Done", "In Progress", "To-Do"}

PriorityLabels == {"high", "medium", "low"}

RiskLevels == {"overdue", "critical", "high", "medium", "low"}

MkTask(id, status, due, assignee, description) ==
    [id |-> id, status |-> status, due |-> due, assignee |-> assignee,
     description |-> description]

MkProject(id, name, members, tasks) ==
    [id |-> id, name |-> name, members |-> members, tasks |-> tasks]

\* The body of an /api/ai-insights response, as far as the dashboard reads
\* it: the priority label, the risk level of the deadline and the summary
\* text, here of a body without a summary.
MkInsight(priority, risk) ==
    [priority |-> priority, deadline |-> risk, summary |-> "none"]

\* The same body with the summary field set to the given text.
WithSummary(insight, text) ==
    IF insight = Null THEN Null ELSE Some([insight[1] EXCEPT !.summary = text])

\* Every response body: null, or an object whose priority and deadline
\* fields are each present with a label or absent.
Responses ==
    {Null} \cup {Some(MkInsight(p, r)) :
                    p \in PriorityLabels \cup {"none"},
                    r \in RiskLevels \cup {"none"}}

\* insight?.priority?.priority
PriorityOf(insight) ==
    IF insight = Null THEN "none" ELSE insight[1].priority

\* insight?.deadline?.risk_level
RiskOf(insight) ==
    IF insight = Null THEN "none" ELSE insight[1].deadline

SeqsUpTo(S, n) == UNION {[1..k -> S] : k \in 0..n}

Range(s) == {s[i] : i \in 1..Len(s)}

\* s.filter(x => x is one of keep).length
Count(s, keep) == Cardinality({i \in 1..Len(s) : s[i] \in keep})

RECURSIVE Flatten(_)
Flatten(ss) == IF ss = << >> THEN << >> ELSE Head(ss) \o Flatten(Tail(ss))

\* (x).toFixed(1) for x = num / den >= 0, in tenths: the nearest tenth, the
\* larger one on a tie.
ToFixed1(num, den) == (20 * num + den) \div (2 * den)

----------------------------------------------------------------------------
(* allTasks: projects.flatMap(project => project.tasks.map(...)) *)

WithProject(project) ==
    [i \in 1..Len(project.tasks) |->
        [id |-> project.tasks[i].id,
         status |-> project.tasks[i].status,
         due |-> project.tasks[i].due,
         assignee |-> project.tasks[i].assignee,
         description |-> project.tasks[i].description,
         projectName |-> project.name]]

AllTasks(ps) == Flatten([i \in 1..Len(ps) |-> WithProject(ps[i])])

----------------------------------------------------------------------------
(* generateSummaryInsights *)

\* A histogram that files an absent priority under the default label.
PriorityBucketDefault(insight) ==
    IF PriorityOf(insight) = "none" THEN "medium" ELSE PriorityOf(insight)

\* The bucket an entry is counted in: `if (insight?.priority?.priority)
\* priorityCounts[...]++` counts nothing for a null insight or absent field.
PriorityBucket(insight) == PriorityOf(insight)

RiskBucket(insight) == RiskOf(insight)

\* A high-risk filter that leaves the critical level out.
IsHighRiskOverdueOnly(entry) == RiskOf(entry.insight) = "overdue"

IsHighRisk(entry) ==
    RiskOf(entry.insight) = "overdue" \/ RiskOf(entry.insight) = "critical"

\* A filter that takes an insight into account only if it has a summary.
IsHighPriorityWithSummary(entry) ==
    /\ PriorityOf(entry.insight) = "high"
    /\ entry.insight[1].summary # "none"

IsHighPriority(entry) == PriorityOf(entry.insight) = "high"

\* A completion rate that calls an empty portfolio complete.
SummaryCompletionRateFull(completedTasks, totalTasks) ==
    IF totalTasks > 0 THEN ToFixed1(completedTasks * 100, totalTasks) ELSE 1000

\* A completion rate that scales the quotient twice.
SummaryCompletionRateScaled(completedTasks, totalTasks) ==
    IF totalTasks > 0 THEN ToFixed1(completedTasks * 100 * 100, totalTasks) ELSE 0

\* totalTasks > 0 ? (completedTasks / totalTasks * 100).toFixed(1) : 0
SummaryCompletionRate(completedTasks, totalTasks) ==
    IF totalTasks > 0 THEN ToFixed1(completedTasks * 100, totalTasks) ELSE 0

\* An urgent count that takes the larger of the two counts.
UrgentTasksMax(highRiskTasks, highPriorityTasks) ==
    IF highRiskTasks > highPriorityTasks THEN highRiskTasks ELSE highPriorityTasks

UrgentTasks(highRiskTasks, highPriorityTasks) ==
    highRiskTasks + highPriorityTasks

generateSummaryInsights(ti) ==
    LET totalTasks == Len(ti)
        completedTasks == Count(ti, {e \in Range(ti) : e.task.status = "Done"})
        inProgressTasks == Count(ti, {e \in Range(ti) : e.task.status = "In Progress"})
        todoTasks == Count(ti, {e \in Range(ti) : e.task.status = "To-Do"})
        priorityCounts ==
            [l \in PriorityLabels |->
                Count(ti, {e \in Range(ti) : PriorityBucket(e.insight) = l})]
        riskCounts ==
            [l \in RiskLevels |->
                Count(ti, {e \in Range(ti) : RiskBucket(e.insight) = l})]
        highRiskTasks == Count(ti, {x \in Range(ti) : IsHighRisk(x)})
        highPriorityTasks == Count(ti, {x \in Range(ti) : IsHighPriority(x)})
    IN  [totalTasks |-> totalTasks,
         completedTasks |-> completedTasks,
         inProgressTasks |-> inProgressTasks,
         todoTasks |-> todoTasks,
         completionRate |-> SummaryCompletionRate(completedTasks, totalTasks),
         priorityCounts |-> priorityCounts,
         riskCounts |-> riskCounts,
         highRiskTasks |-> highRiskTasks,
         highPriorityTasks |-> highPriorityTasks,
         urgentTasks |-> UrgentTasks(highRiskTasks, highPriorityTasks)]

----------------------------------------------------------------------------
(* generateAIRecommendations *)

NotDone(t) == t.status # "Done"

\* An overdue test that forgets the status.
IsOverdueTaskAnyStatus(t, today) ==
    /\ t.due # Null
    /\ t.due[1] * TicksPerDay < today

\* dueDate < today && t.status !== 'Done', for a task with a due date
IsOverdueTask(t, today) ==
    /\ t.due # Null
    /\ t.due[1] * TicksPerDay < today
    /\ t.status # "Done"

\* daysLeft = (dueDate - today) / (1000*60*60*24); daysLeft <= 3 && daysLeft >= 0
IsUpcomingDeadline(t, today) ==
    /\ t.due # Null
    /\ t.status # "Done"
    /\ t.due[1] * TicksPerDay - today <= UpcomingDays * TicksPerDay
    /\ t.due[1] * TicksPerDay - today >= 0

\* A completion rate that counts an empty task set as fully completed.
RecCompletionRateFullWhenEmpty(tasks) ==
    IF Len(tasks) > 0
    THEN [num |-> Count(tasks, {t \in Range(tasks) : t.status = "Done"}) * 100,
          den |-> Len(tasks)]
    ELSE [num |-> 100, den |-> 1]

\* The local completionRate, an unrounded quotient num / den.
RecCompletionRate(tasks) ==
    IF Len(tasks) > 0
    THEN [num |-> Count(tasks, {t \in Range(tasks) : t.status = "Done"}) * 100,
          den |-> Len(tasks)]
    ELSE [num |-> 0, den |-> 1]

\* A threshold test that also fires at the threshold itself.
IsLowCompletionInclusive(rate) ==
    rate.num <= LowCompletionThreshold * rate.den

\* completionRate < 30
IsLowCompletion(rate) == rate.num < LowCompletionThreshold * rate.den

\* new Set(tasks.map(t => t.assignee).filter(Boolean))
UniqueAssignees(tasks) == {tasks[i].assignee : i \in 1..Len(tasks)} \ {""}

\* A collaboration test that also fires at the threshold itself.
IsCollaborationOpportunityInclusive(nTasks, nAssignees) ==
    /\ nAssignees > 0
    /\ nTasks >= CollaborationThreshold * nAssignees

\* uniqueAssignees.size > 0 and tasks.length / uniqueAssignees.size > 3
IsCollaborationOpportunity(nTasks, nAssignees) ==
    /\ nAssignees > 0
    /\ nTasks > CollaborationThreshold * nAssignees

MkRec(type, title, priority, count) ==
    [type |-> type, title |-> title, priority |-> priority, count |-> count]

DefaultRec ==
    MkRec("success", "Excellent Project Management", "low", 0)

\* if (recommendations.length === 0) recommendations.push(default)
WithDefault(recommendations) ==
    IF Len(recommendations) = 0 THEN <<DefaultRec>> ELSE recommendations

generateAIRecommendations(tasks, today) ==
    LET highPriorityTasks == Count(tasks, {x \in Range(tasks) : NotDone(x)})
        overdueTasks == Count(tasks, {t \in Range(tasks) : IsOverdueTask(t, today)})
        completionRate == RecCompletionRate(tasks)
        upcomingDeadlines == Count(tasks, {t \in Range(tasks) : IsUpcomingDeadline(t, today)})
        uniqueAssignees == UniqueAssignees(tasks)
        r1 == IF overdueTasks > 0
              THEN <<MkRec("urgent", "Overdue Tasks Detected", "high", overdueTasks)>>
              ELSE << >>
        r2 == IF highPriorityTasks > WorkloadThreshold
              THEN <<MkRec("workload", "Workload Distribution Alert", "medium", 0)>>
              ELSE << >>
        r3 == IF IsLowCompletion(completionRate)
              THEN <<MkRec("productivity", "Productivity Optimization", "medium", 0)>>
              ELSE << >>
        r4 == IF upcomingDeadlines > 0
              THEN <<MkRec("deadline", "Upcoming Deadlines", "high", upcomingDeadlines)>>
              ELSE << >>
        r5 == IF IsCollaborationOpportunity(Len(tasks), Cardinality(uniqueAssignees))
              THEN <<MkRec("collaboration", "Team Collaboration Opportunity", "low", 0)>>
              ELSE << >>
    IN  WithDefault(r1 \o r2 \o r3 \o r4 \o r5)

----------------------------------------------------------------------------
(* generateRiskAlerts: the alerts one awaited insight adds for its task *)

MkAlert(type, severity, task) ==
    [type |-> type, severity |-> severity, task |-> task]

DeadlineAlerts(task, insight) ==
    IF RiskOf(insight) = "overdue"
    THEN <<MkAlert("overdue", "critical", task)>>
    ELSE IF RiskOf(insight) = "critical"
         THEN <<MkAlert("critical", "high", task)>>
         ELSE << >>

PriorityAlerts(task, insight) ==
    IF PriorityOf(insight) = "high"
    THEN <<MkAlert("priority", "medium", task)>>
    ELSE << >>

\* The two rules tried in the other order.
AlertsForPriorityFirst(task, insight) ==
    PriorityAlerts(task, insight) \o DeadlineAlerts(task, insight)

\* An else-if chain: the priority rule is tried only if no deadline rule fired.
AlertsForExclusive(task, insight) ==
    IF DeadlineAlerts(task, insight) # << >>
    THEN DeadlineAlerts(task, insight)
    ELSE PriorityAlerts(task, insight)

AlertsFor(task, insight) ==
    DeadlineAlerts(task, insight) \o PriorityAlerts(task, insight)

\* `if (task.status === 'Done') continue`: the next task at or after index i
\* that is analysed, or 0 when the loop is over.
NextAlertIdx(tasks, i) ==
    LET rest == {j \in i..Len(tasks) : tasks[j].status # "Done"}
    IN  IF rest = {} THEN 0 ELSE CHOOSE j \in rest : \A k \in rest : j <= k

----------------------------------------------------------------------------
(* generateProductivityInsights *)

\* desc.length > 100 || desc includes 'complex' | 'difficult' | 'challenging';
\* a description is one of the kinds "", "short", "long", "keyword".
IsComplexTask(t) == t.description \in {"long", "keyword"}

\* A progress rate that counts only the tasks in progress.
ProgressRateInProgressOnly(completed, inProgress, total) ==
    IF total > 0 THEN ToFixed1(inProgress * 100, total) ELSE 0

\* progressRate.toFixed(1), progressRate being
\* ((completedTasks.length + inProgressTasks.length) / tasks.length) * 100 or 0
ProgressRate(completed, inProgress, total) ==
    IF total > 0 THEN ToFixed1((completed + inProgress) * 100, total) ELSE 0

\* A score that adds the two rates without halving the sum.
ProductivityScoreSum(completed, inProgress, total) ==
    LET score == IF total > 0
                 THEN ToFixed1((2 * completed + inProgress) * 100, total)
                 ELSE 0
    IN  IF score < 1000 THEN score ELSE 1000

\* Math.min(100, (completionRate + progressRate) / 2).toFixed(1), over the
\* unrounded rates: their half sum is (2 * completed + inProgress) / (2 *
\* total) * 100.
ProductivityScore(completed, inProgress, total) ==
    LET score == IF total > 0
                 THEN ToFixed1((2 * completed + inProgress) * 100, 2 * total)
                 ELSE 0
    IN  IF score < 1000 THEN score ELSE 1000

\* The rates are IEEE doubles in the code; for fewer than 24 tasks each of
\* them prints, with toFixed(1), as the exact quotient does.
generateProductivityInsights(tasks) ==
    LET total == Len(tasks)
        completedTasks == Count(tasks, {t \in Range(tasks) : t.status = "Done"})
        inProgressTasks == Count(tasks, {t \in Range(tasks) : t.status = "In Progress"})
        complexTasks == Count(tasks, {x \in Range(tasks) : IsComplexTask(x)})
    IN  [completionRate |->
            IF total > 0 THEN ToFixed1(completedTasks * 100, total) ELSE 0,
         progressRate |-> ProgressRate(completedTasks, inProgressTasks, total),
         complexTasks |-> complexTasks,
         avgTaskComplexity |->
            IF total > 0 THEN ToFixed1(complexTasks * 100, total) ELSE 0,
         productivityScore |->
            ProductivityScore(completedTasks, inProgressTasks, total)]

----------------------------------------------------------------------------
(* generateTeamInsights *)

\* The (project, member) visits of the two nested forEach loops, in order.
MemberVisits(ps) ==
    Flatten([i \in 1..Len(ps) |->
                [j \in 1..Len(ps[i].members) |->
                    [project |-> i, member |-> ps[i].members[j]]]])

\* project.tasks.filter(t => t.assignee === member).length
AssignedIn(project, member) ==
    Count(project.tasks, {t \in Range(project.tasks) : t.assignee = member})

\* memberTaskCounts[member] after the loops: one addend per visit of member.
MemberTaskCount(ps, member) ==
    LET visits == MemberVisits(ps)
        RECURSIVE Sum(_)
        Sum(k) == IF k = 0 THEN 0
                  ELSE Sum(k - 1) +
                       (IF visits[k].member = member
                        THEN AssignedIn(ps[visits[k].project], member)
                        ELSE 0)
    IN  Sum(Len(visits))

\* Object.keys(memberTaskCounts): the members in order of first insertion.
RECURSIVE Dedup(_)
Dedup(s) ==
    IF s = << >> THEN << >>
    ELSE LET front == Dedup(SubSeq(s, 1, Len(s) - 1))
             last == s[Len(s)]
         IN  IF \E i \in 1..Len(front) : front[i] = last
             THEN front ELSE Append(front, last)

\* A key list with one entry per visit: a member of two projects twice.
MemberKeysPerVisit(ps) ==
    LET visits == MemberVisits(ps)
    IN  [k \in 1..Len(visits) |-> visits[k].member]

MemberKeys(ps) ==
    LET visits == MemberVisits(ps)
    IN  Dedup([k \in 1..Len(visits) |-> visits[k].member])

\* A comparison with >= : the accumulated member is kept on a tie.
MoreActiveKeepTie(ps, a, b) ==
    IF a # "None" /\ MemberTaskCount(ps, a) >= MemberTaskCount(ps, b)
    THEN a ELSE b

\* memberTaskCounts[a] > memberTaskCounts[b] ? a : b, where the count of the
\* initial value 'None' is undefined and undefined > n is false.
MoreActive(ps, a, b) ==
    IF a # "None" /\ MemberTaskCount(ps, a) > MemberTaskCount(ps, b)
    THEN a ELSE b

\* Object.keys(memberTaskCounts).reduce(..., 'None')
RECURSIVE ReduceMostActive(_, _, _)
ReduceMostActive(ps, keys, acc) ==
    IF keys = << >> THEN acc
    ELSE ReduceMostActive(ps, Tail(keys), MoreActive(ps, acc, Head(keys)))

\* A distribution that adds up the tasks of the projects of one name.
ProjectCountsSum(ps) ==
    [n \in {ps[i].name : i \in 1..Len(ps)} |->
        LET RECURSIVE S(_)
            S(k) == IF k = 0 THEN 0
                    ELSE S(k - 1) + (IF ps[k].name = n THEN Len(ps[k].tasks) ELSE 0)
        IN  S(Len(ps))]

\* projectCounts[project.name] = project.tasks.length, later projects
\* overwriting earlier ones of the same name.
ProjectCounts(ps) ==
    [n \in {ps[i].name : i \in 1..Len(ps)} |->
        LET last == CHOOSE i \in 1..Len(ps) :
                        /\ ps[i].name = n
                        /\ \A j \in 1..Len(ps) : ps[j].name = n => j <= i
        IN  Len(ps[last].tasks)]

generateTeamInsights(ps) ==
    LET keys == MemberKeys(ps)
        totalMembers == Len(keys)
        sum == LET RECURSIVE S(_)
                   S(k) == IF k = 0 THEN 0
                           ELSE S(k - 1) + MemberTaskCount(ps, keys[k])
               IN  S(Len(keys))
    IN  [totalMembers |-> totalMembers,
         avgTasksPerMember |->
            IF totalMembers > 0 THEN ToFixed1(sum, totalMembers) ELSE 0,
         mostActiveMember |-> ReduceMostActive(ps, keys, "None"),
         projectDistribution |-> ProjectCounts(ps)]

----------------------------------------------------------------------------
(* Promises of getAIInsights (src/src/api.js, 34-42): pending, fulfilled    *)
(* with res.data, or rejected (network error, non-2xx status).             *)

Pending == [state |-> "pending", data |-> Null]

Fulfilled(data) == [state |-> "fulfilled", data |-> data]

Rejected == [state |-> "rejected", data |-> Null]

\* return { task, insight }
ResolvedEntry(task, insight) == [task |-> task, insight |-> insight]

\* A catch block that answers a failure with a default classification.
CatchEntryDefault(task) ==
    [task |-> task, insight |-> Some(MkInsight("medium", "low"))]

\* catch (error) { ...; return { task, insight: null } }
CatchEntry(task) == [task |-> task, insight |-> Null]

\* A collection that appends each value as its promise settles.
CollectByArrival(results, i, entry) ==
    ((Cardinality(DOMAIN results) + 1) :> entry) @@ results

\* Promise.all puts the value of the i-th promise at index i of its result.
Collect(results, i, entry) == (i :> entry) @@ results

AllSettled(cs) == \A i \in DOMAIN cs : cs[i].state # "pending"

----------------------------------------------------------------------------
(* The dashboard: useEffect(() => {...}, [projects]) and what it starts *)

\* The empty task form: useState({ title: '', ..., status: 'To-Do' }).
BlankTask ==
    [title |-> "", description |-> "", assignee |-> "", due |-> Null,
     status |-> "To-Do"]

\* No getDeadlineRisk call has been made.
NoRiskCall ==
    [state |-> "none", due |-> Null, complexity |-> "medium", data |-> Null]

\* No superseded run, the empty task form, no handler invoked, no
\* getDeadlineRisk call made.
InitOutside ==
    /\ earlier = Null
    /\ newTask = BlankTask
    /\ showAddTask = FALSE
    /\ pcDetail = "idle"
    /\ riskCall = NoRiskCall

InitDashboard ==
    /\ InitOutside
    /\ loading = FALSE
    /\ insights = Null
    /\ calls = << >>
    /\ taskInsights = << >>
    /\ pcInsights = "idle"
    /\ aiRecommendations = << >>
    /\ riskAlerts = << >>
    /\ productivityInsights = Null
    /\ teamInsights = Null
    /\ pcAdvanced = "idle"
    /\ alertIdx = 0
    /\ alertCalls = << >>
    /\ alerts = << >>

\* The effect runs generateProjectInsights up to its `await Promise.all`
\* (setLoading(true), one getAIInsights call dispatched per task) and
\* generateAdvancedAIInsights up to its first await.  checkAIStatus only
\* sets aiHealth, which nothing else reads, and is left out.
Effect ==
    /\ pcInsights = "idle"
    /\ pcAdvanced = "idle"
    /\ loading' = TRUE
    /\ calls' = [i \in 1..Len(AllTasks(projects)) |-> Pending]
    /\ taskInsights' = << >>
    /\ pcInsights' = "awaiting"
    /\ pcAdvanced' = "recommendations"
    /\ UNCHANGED outsideVars
    /\ UNCHANGED <<projects, now, insights, aiRecommendations, riskAlerts,
                   productivityInsights, teamInsights, alertIdx, alertCalls,
                   alerts>>

\* The call for task i is answered with body `data`.
CallFulfil(i, data) ==
    /\ pcInsights = "awaiting"
    /\ i \in DOMAIN calls
    /\ calls[i].state = "pending"
    /\ calls' = [calls EXCEPT ![i] = Fulfilled(data)]
    /\ taskInsights' =
          Collect(taskInsights, i, ResolvedEntry(AllTasks(projects)[i], data))
    /\ UNCHANGED outsideVars
    /\ UNCHANGED <<projects, now, loading, insights, pcInsights>>
    /\ UNCHANGED advancedVars

\* The call for task i fails.
CallReject(i) ==
    /\ pcInsights = "awaiting"
    /\ i \in DOMAIN calls
    /\ calls[i].state = "pending"
    /\ calls' = [calls EXCEPT ![i] = Rejected]
    /\ taskInsights' = Collect(taskInsights, i, CatchEntry(AllTasks(projects)[i]))
    /\ UNCHANGED outsideVars
    /\ UNCHANGED <<projects, now, loading, insights, pcInsights>>
    /\ UNCHANGED advancedVars

\* A fan-in without the finally block.
FanInWithoutFinally ==
    /\ pcInsights = "awaiting"
    /\ AllSettled(calls)
    /\ insights' = Some([taskInsights |-> taskInsights,
                         summary |-> generateSummaryInsights(taskInsights)])
    /\ pcInsights' = "done"
    /\ UNCHANGED outsideVars
    /\ UNCHANGED <<projects, now, loading, calls, taskInsights>>
    /\ UNCHANGED advancedVars

\* Promise.all resolves: summary, setInsights, finally setLoading(false).
FanIn ==
    /\ pcInsights = "awaiting"
    /\ AllSettled(calls)
    /\ insights' = Some([taskInsights |-> taskInsights,
                         summary |-> generateSummaryInsights(taskInsights)])
    /\ loading' = FALSE
    /\ pcInsights' = "done"
    /\ UNCHANGED outsideVars
    /\ UNCHANGED <<projects, now, calls, taskInsights>>
    /\ UNCHANGED advancedVars

\* `await generateAIRecommendations(allTasks)` resumes: setAiRecommendations,
\* then generateRiskAlerts runs up to the await of its first analysed task.
SetRecommendations ==
    /\ pcAdvanced = "recommendations"
    /\ aiRecommendations' = generateAIRecommendations(AllTasks(projects), now)
    /\ alerts' = << >>
    /\ alertIdx' = NextAlertIdx(AllTasks(projects), 1)
    /\ alertCalls' = IF alertIdx' = 0 THEN << >> ELSE (alertIdx' :> Pending)
    /\ pcAdvanced' = "alerts"
    /\ UNCHANGED outsideVars
    /\ UNCHANGED <<projects, now, riskAlerts, productivityInsights, teamInsights>>
    /\ UNCHANGED insightVars

\* The loop of generateRiskAlerts moves on to the next analysed task.
AlertLoopNext(newCalls, newAlerts) ==
    /\ alerts' = newAlerts
    /\ alertIdx' = NextAlertIdx(AllTasks(projects), alertIdx + 1)
    /\ alertCalls' = IF alertIdx' = 0 THEN newCalls
                     ELSE (alertIdx' :> Pending) @@ newCalls
    /\ UNCHANGED outsideVars
    /\ UNCHANGED <<projects, now, aiRecommendations, riskAlerts,
                   productivityInsights, teamInsights, pcAdvanced>>
    /\ UNCHANGED insightVars

\* The awaited call of generateRiskAlerts is answered with body `data`.
AlertFulfil(data) ==
    /\ pcAdvanced = "alerts"
    /\ alertIdx # 0
    /\ AlertLoopNext([alertCalls EXCEPT ![alertIdx] = Fulfilled(data)],
                     alerts \o AlertsFor(AllTasks(projects)[alertIdx], data))

\* The awaited call of generateRiskAlerts fails: caught, nothing pushed.
AlertReject ==
    /\ pcAdvanced = "alerts"
    /\ alertIdx # 0
    /\ AlertLoopNext([alertCalls EXCEPT ![alertIdx] = Rejected], alerts)

\* generateRiskAlerts has returned: setRiskAlerts, then the productivity and
\* team insights are computed and set.
FinishAdvanced ==
    /\ pcAdvanced = "alerts"
    /\ alertIdx = 0
    /\ riskAlerts' = alerts
    /\ productivityInsights' = Some(generateProductivityInsights(AllTasks(projects)))
    /\ teamInsights' = Some(generateTeamInsights(projects))
    /\ pcAdvanced' = "done"
    /\ UNCHANGED outsideVars
    /\ UNCHANGED <<projects, now, aiRecommendations, alertIdx, alertCalls, alerts>>
    /\ UNCHANGED insightVars

----------------------------------------------------------------------------
(* The projects view: App (src/src/App.js) and ProjectDetail.  A date input *)
(* holds '' (the null sequence here) or a date; a title is empty, blank or  *)
(* a text.  The title of a stored task is not read by anything modelled    *)
(* here and is not kept in the task record.                                *)

Titles == {"", " ", "Fix nav bug"}

\* title.trim()
Trim(title) == IF title = " " THEN "" ELSE title

\* Math.max(0, ...ids)
MaxOf(ids) == IF ids = {} THEN 0 ELSE CHOOSE m \in ids : \A x \in ids : x <= m

\* An id that is the number of tasks plus one.
NextIdByLength(items) == Len(items) + 1

\* Math.max(0, ...items.map(x => x.id)) + 1
NextId(items) == MaxOf({items[i].id : i \in 1..Len(items)}) + 1

\* addProject: setProjects([...projects, { id, name, members: [], tasks: [] }])
addProject(ps, name) ==
    Append(ps, MkProject(NextId(ps), name, << >>, << >>))

\* A replacement that puts the updated project in every place.
updateProjectEverywhere(ps, updated) ==
    [i \in 1..Len(ps) |-> updated]

\* updateProject: setProjects(projects.map(p => p.id === updated.id ? updated : p))
updateProject(ps, updated) ==
    [i \in 1..Len(ps) |-> IF ps[i].id = updated.id THEN updated ELSE ps[i]]

\* projects.find(p => p.id === projectId), for an id the list holds
FindProject(ps, projectId) ==
    ps[CHOOSE i \in 1..Len(ps) :
          /\ ps[i].id = projectId
          /\ \A j \in 1..(i - 1) : ps[j].id # projectId]

\* s.filter(x => x is one of keep)
RECURSIVE Filter(_, _)
Filter(s, keep) ==
    IF s = << >> THEN << >>
    ELSE IF Head(s) \in keep THEN <<Head(s)>> \o Filter(Tail(s), keep)
         ELSE Filter(Tail(s), keep)

\* The ProjectDetail of the project with the given id is on screen.
DetailOpen(projectId) == \E i \in 1..Len(projects) : projects[i].id = projectId

DashboardUnmounted ==
    /\ UNCHANGED <<now, earlier, riskCall>>
    /\ UNCHANGED insightVars
    /\ UNCHANGED advancedVars

\* The '+ New Project' button of the header.
AddProject ==
    /\ Len(projects) < MaxDetailProjects
    /\ projects' = addProject(projects, "New Project")
    /\ pcDetail' = "idle"
    /\ UNCHANGED <<newTask, showAddTask>>
    /\ DashboardUnmounted

\* The '+ Add Task' button, and 'Cancel'.
ToggleAddTask(projectId) ==
    /\ DetailOpen(projectId)
    /\ showAddTask' = ~showAddTask
    /\ pcDetail' = "idle"
    /\ UNCHANGED <<projects, newTask>>
    /\ DashboardUnmounted

\* The title input of the task form changes:
\* setNewTask({ ...newTask, title: e.target.value })
SetNewTask(projectId, title) ==
    /\ DetailOpen(projectId)
    /\ showAddTask
    /\ newTask' = [newTask EXCEPT !.title = title]
    /\ pcDetail' = "idle"
    /\ UNCHANGED <<projects, showAddTask>>
    /\ DashboardUnmounted

\* addTask: nothing happens for a title that is empty after trim();
\* otherwise the task gets the next id, the project is replaced and the
\* form is reset and closed.
AddTask(projectId) ==
    /\ DetailOpen(projectId)
    /\ showAddTask
    /\ pcDetail' = "addTask"
    /\ IF Trim(newTask.title) = ""
       THEN UNCHANGED <<projects, newTask, showAddTask>>
       ELSE LET project == FindProject(projects, projectId)
                task == MkTask(NextId(project.tasks), newTask.status,
                               newTask.due, newTask.assignee,
                               newTask.description)
            IN  /\ Len(AllTasks(projects)) < MaxDetailTasks
                /\ task.id <= MaxTaskId
                /\ projects' =
                      updateProject(projects,
                          [project EXCEPT !.tasks = Append(project.tasks, task)])
                /\ newTask' = BlankTask
                /\ showAddTask' = FALSE
    /\ DashboardUnmounted

\* updateTask, called by the status select of a task card with
\* { ...task, status }.
UpdateTask(projectId, k, status) ==
    /\ DetailOpen(projectId)
    /\ LET project == FindProject(projects, projectId)
       IN  /\ k \in 1..Len(project.tasks)
           /\ LET updatedTask == [project.tasks[k] EXCEPT !.status = status]
              IN  projects' =
                    updateProject(projects,
                        [project EXCEPT !.tasks =
                            [j \in 1..Len(project.tasks) |->
                                IF project.tasks[j].id = updatedTask.id
                                THEN updatedTask ELSE project.tasks[j]]])
    /\ pcDetail' = "idle"
    /\ UNCHANGED <<newTask, showAddTask>>
    /\ DashboardUnmounted

\* deleteTask, called by a task card with its task's id.
DeleteTask(projectId, k) ==
    /\ DetailOpen(projectId)
    /\ LET project == FindProject(projects, projectId)
       IN  /\ k \in 1..Len(project.tasks)
           /\ projects' =
                 updateProject(projects,
                     [project EXCEPT !.tasks =
                         Filter(project.tasks,
                                {t \in Range(project.tasks) :
                                    t.id # project.tasks[k].id})])
    /\ pcDetail' = "idle"
    /\ UNCHANGED <<newTask, showAddTask>>
    /\ DashboardUnmounted

\* email && !project.members.includes(email)
IsNewMember(members, email) == email # "" /\ email \notin Range(members)

\* addMember with the answer to the prompt ('' when it was dismissed).
AddMember(projectId, email) ==
    /\ DetailOpen(projectId)
    /\ LET project == FindProject(projects, projectId)
       IN  IF IsNewMember(project.members, email)
           THEN projects' =
                  updateProject(projects,
                      [project EXCEPT !.members = Append(project.members, email)])
           ELSE UNCHANGED projects
    /\ pcDetail' = "idle"
    /\ UNCHANGED <<newTask, showAddTask>>
    /\ DashboardUnmounted

----------------------------------------------------------------------------
(* Project lists the dashboard is mounted on *)

ProjectNames == <<"Website Redesign", "Mobile App", "Docs", "Ops">>

StatusKinds == {MkTask(0, s, Null, "", "short") : s \in Statuses}

\* The ways to give k projects at most maxT tasks in all.
TaskCounts(k, maxT) ==
    {c \in [1..k -> 0..maxT] :
        Len(Flatten([i \in 1..k |-> [j \in 1..c[i] |-> j]])) <= maxT}

\* The number of tasks of the projects before project i.
Offset(c, i) == Len(Flatten([h \in 1..(i - 1) |-> [j \in 1..c[h] |-> j]]))

\* k projects with ids 1..k (addProject numbers projects max + 1), project i
\* having c[i] tasks with ids 1..c[i] (addTask numbers tasks max + 1); the
\* other fields of the tasks are those of the kinds listed in f.
BuildProjects(k, c, names, members, f) ==
    [i \in 1..k |->
        MkProject(i, names[i], members[i],
                  [j \in 1..c[i] |->
                      MkTask(j, f[Offset(c, i) + j].status,
                             f[Offset(c, i) + j].due,
                             f[Offset(c, i) + j].assignee,
                             f[Offset(c, i) + j].description)])]

\* `projects` is a list of up to maxP projects without members and with at
\* most maxT tasks in all, of which only the status varies.
StatusProjects(maxP, maxT) ==
    \E k \in 0..maxP : \E c \in TaskCounts(k, maxT) :
        \E f \in [1..Offset(c, k + 1) -> StatusKinds] :
            projects = BuildProjects(k, c, ProjectNames,
                                     [i \in 1..k |-> << >>], f)

----------------------------------------------------------------------------
(* Spec: generateProjectInsights on a mounted dashboard, the backend        *)
(* answering each call with one of three bodies or failing.                *)

CycleResponses ==
    {Null, Some(MkInsight("high", "overdue")), Some(MkInsight("none", "low"))}

Init ==
    /\ StatusProjects(MaxProjects, MaxTasks)
    /\ now = 1
    /\ InitDashboard

Next ==
    \/ Effect
    \/ \E i \in DOMAIN calls : \E data \in CycleResponses : CallFulfil(i, data)
    \/ \E i \in DOMAIN calls : CallReject(i)
    \/ FanIn

Spec == Init /\ [][Next]_vars

\* The call for task i settles, one way or the other.
Settle(i) ==
    \/ \E data \in CycleResponses : CallFulfil(i, data)
    \/ CallReject(i)

\* The cycle where every call that is pending settles at some time and the
\* continuation of a resolved Promise.all is run: the effect runs after the
\* render, a promise that can settle is settled by the HTTP client, and the
\* microtask queue is drained.
SpecLive ==
    /\ Init
    /\ [][Next]_vars
    /\ WF_vars(Effect)
    /\ \A i \in 1..MaxTasks : WF_vars(Settle(i))
    /\ WF_vars(FanIn)

----------------------------------------------------------------------------
(* Properties of the fan-out of generateProjectInsights *)

\* C1: when the cycle is over, a task whose insight call failed has the
\* entry {task, insight: null}, every task whose call was answered has the
\* body of its own answer, and the summary was computed over all the tasks.
C1_FailureIsolated ==
    pcInsights = "done" =>
        /\ insights # Null
        /\ loading = FALSE
        /\ Len(insights[1].taskInsights) = Len(AllTasks(projects))
        /\ \A i \in 1..Len(AllTasks(projects)) :
              /\ calls[i].state = "rejected" =>
                    insights[1].taskInsights[i] =
                        [task |-> AllTasks(projects)[i], insight |-> Null]
              /\ calls[i].state = "fulfilled" =>
                    insights[1].taskInsights[i] =
                        [task |-> AllTasks(projects)[i], insight |-> calls[i].data]
        /\ insights[1].summary.totalTasks = Len(AllTasks(projects))
        /\ insights[1].summary.highPriorityTasks =
              Cardinality({i \in DOMAIN calls :
                              /\ calls[i].state = "fulfilled"
                              /\ PriorityOf(calls[i].data) = "high"})

\* A finished cycle in which one call failed and another was answered.
C1_Witness ==
    /\ pcInsights = "done"
    /\ \E i, j \in DOMAIN calls :
          /\ calls[i].state = "rejected"
          /\ calls[j].state = "fulfilled"
          /\ calls[j].data # Null

\* C2: in whatever order the calls settle, the entry collected at index i
\* describes the i-th task of the flattened input, and the finished list has
\* the length of the input.
C2_OrderPreserved ==
    /\ \A i \in DOMAIN taskInsights :
          /\ i \in 1..Len(AllTasks(projects))
          /\ taskInsights[i].task = AllTasks(projects)[i]
          /\ calls[i].state # "pending"
          /\ taskInsights[i].insight = calls[i].data
    /\ pcInsights = "done" =>
          /\ DOMAIN insights[1].taskInsights = 1..Len(AllTasks(projects))
          /\ insights[1].taskInsights = taskInsights

\* The call of the second task has settled and its entry is collected while
\* the call of the first task is still pending.
C2_Witness ==
    /\ pcInsights = "awaiting"
    /\ 2 \in DOMAIN taskInsights
    /\ calls[1].state = "pending"
    /\ calls[2].state = "fulfilled"

----------------------------------------------------------------------------
(* The states right after the effect has run on a project list *)

AfterEffect ==
    /\ InitOutside
    /\ loading = TRUE
    /\ insights = Null
    /\ calls = [i \in 1..Len(AllTasks(projects)) |-> Pending]
    /\ taskInsights = << >>
    /\ pcInsights = "awaiting"
    /\ aiRecommendations = << >>
    /\ riskAlerts = << >>
    /\ productivityInsights = Null
    /\ teamInsights = Null
    /\ pcAdvanced = "recommendations"
    /\ alertIdx = 0
    /\ alertCalls = << >>
    /\ alerts = << >>

----------------------------------------------------------------------------
(* SpecSummary: the fan-in of generateProjectInsights from every way the    *)
(* calls of a cycle can have settled.                                      *)

SettledCalls == {Rejected} \cup {Fulfilled(d) : d \in Responses}

\* The entry the inner async function returns for a settled call.
EntryOf(task, call) ==
    IF call.state = "rejected" THEN CatchEntry(task)
    ELSE ResolvedEntry(task, call.data)

InitSummary ==
    /\ StatusProjects(1, MaxInsights)
    /\ now = 1
    /\ InitOutside
    /\ loading = TRUE
    /\ insights = Null
    /\ calls \in [1..Len(AllTasks(projects)) -> SettledCalls]
    /\ taskInsights =
          [i \in 1..Len(AllTasks(projects)) |->
              EntryOf(AllTasks(projects)[i], calls[i])]
    /\ pcInsights = "awaiting"
    /\ aiRecommendations = << >>
    /\ riskAlerts = << >>
    /\ productivityInsights = Null
    /\ teamInsights = Null
    /\ pcAdvanced = "recommendations"
    /\ alertIdx = 0
    /\ alertCalls = << >>
    /\ alerts = << >>

NextSummary == FanIn

SpecSummary == InitSummary /\ [][NextSummary]_vars

----------------------------------------------------------------------------
(* SpecAlerts: generateAdvancedAIInsights with every response body *)

InitAlerts ==
    /\ StatusProjects(1, MaxAlertTasks)
    /\ now = 1
    /\ AfterEffect

NextAlerts ==
    \/ SetRecommendations
    \/ \E data \in Responses : AlertFulfil(data)
    \/ AlertReject
    \/ FinishAdvanced

SpecAlerts == InitAlerts /\ [][NextAlerts]_vars

----------------------------------------------------------------------------
(* SpecCycle: one analysis cycle, both generateProjectInsights and         *)
(* generateRiskAlerts calling the backend, whose bodies may carry a        *)
(* summary.  It starts where the calls of the fan-out have settled and     *)
(* generateRiskAlerts awaits its first call.                               *)

CycleBodies ==
    {Some(MkInsight("high", "overdue")),
     WithSummary(Some(MkInsight("high", "overdue")), "a summary"),
     WithSummary(Some(MkInsight("none", "critical")), "another summary")}

InitCycle ==
    /\ StatusProjects(1, MaxCycleTasks)
    /\ now = 1
    /\ InitOutside
    /\ loading = TRUE
    /\ insights = Null
    /\ calls \in [1..Len(AllTasks(projects)) ->
                    {Rejected} \cup {Fulfilled(d) : d \in CycleBodies}]
    /\ taskInsights =
          [i \in 1..Len(AllTasks(projects)) |->
              EntryOf(AllTasks(projects)[i], calls[i])]
    /\ pcInsights = "awaiting"
    /\ aiRecommendations = generateAIRecommendations(AllTasks(projects), now)
    /\ riskAlerts = << >>
    /\ productivityInsights = Null
    /\ teamInsights = Null
    /\ pcAdvanced = "alerts"
    /\ alertIdx = NextAlertIdx(AllTasks(projects), 1)
    /\ alertCalls = IF alertIdx = 0 THEN << >> ELSE (alertIdx :> Pending)
    /\ alerts = << >>

NextCycle ==
    \/ FanIn
    \/ \E data \in CycleBodies : AlertFulfil(data)
    \/ AlertReject
    \/ FinishAdvanced

SpecCycle == InitCycle /\ [][NextCycle]_vars

----------------------------------------------------------------------------
(* SpecProjects: the projects view, from the initial state of App *)

\* useState([{ id: 1, name: 'Website Redesign', members: [...], tasks: [...] }])
InitialProjects ==
    <<MkProject(1, "Website Redesign", <<"alice", "bob">>,
                <<MkTask(1, "To-Do", Some(1), "alice", "short"),
                  MkTask(2, "In Progress", Some(0), "bob", "short")>>)>>

InitProjects ==
    /\ projects = InitialProjects
    /\ now = 1
    /\ InitDashboard

ProjectIds == {projects[i].id : i \in 1..Len(projects)}

NextProjects ==
    \/ AddProject
    \/ \E id \in ProjectIds : ToggleAddTask(id)
    \/ \E id \in ProjectIds : \E title \in Titles : SetNewTask(id, title)
    \/ \E id \in ProjectIds : AddTask(id)
    \/ \E id \in ProjectIds : \E k \in 1..MaxDetailTasks :
          UpdateTask(id, k, "Done")
    \/ \E id \in ProjectIds : \E k \in 1..MaxDetailTasks : DeleteTask(id, k)
    \/ \E id \in ProjectIds : \E email \in {"", "bob"} : AddMember(id, email)

SpecProjects == InitProjects /\ [][NextProjects]_vars

----------------------------------------------------------------------------
(* SpecRecs: generateAIRecommendations over task sets with due dates and    *)
(* assignees.  The function only counts, so the task lists are those of a  *)
(* single project whose tasks are listed kind by kind.                     *)

RecKinds ==
    <<MkTask(0, "Done", Null, "", "short"),
      MkTask(0, "Done", Some(0 - 1), "alice", "short"),
      MkTask(0, "Done", Some(0), "bob", "short"),
      MkTask(0, "To-Do", Null, "", "short"),
      MkTask(0, "To-Do", Null, "alice", "short"),
      MkTask(0, "To-Do", Some(0 - 1), "alice", "short"),
      MkTask(0, "To-Do", Some(0), "bob", "short"),
      MkTask(0, "In Progress", Null, "alice", "short"),
      MkTask(0, "In Progress", Some(3), "", "short"),
      MkTask(0, "In Progress", Some(4), "bob", "short")>>

\* The non-decreasing sequences of length n over 1..k.
RECURSIVE SortedSeqs(_, _)
SortedSeqs(n, k) ==
    IF n = 0 THEN {<< >>}
    ELSE UNION {{Append(s, j) : j \in (IF s = << >> THEN 1 ELSE s[Len(s)])..k} :
                s \in SortedSeqs(n - 1, k)}

\* One project holding the tasks whose kinds are listed in idx.
OneProject(kinds, idx) ==
    <<MkProject(1, ProjectNames[1], << >>,
                [i \in 1..Len(idx) |->
                    MkTask(i, kinds[idx[i]].status, kinds[idx[i]].due,
                           kinds[idx[i]].assignee, kinds[idx[i]].description)])>>

RecProjects ==
    {OneProject(RecKinds, idx) :
        idx \in UNION {SortedSeqs(n, Len(RecKinds)) : n \in 0..MaxRecTasks}}

\* `now` is midnight of day 0 or later on day 0.
InitRecs ==
    /\ projects \in RecProjects
    /\ now \in 0..(TicksPerDay - 1)
    /\ AfterEffect

NextRecs == SetRecommendations

SpecRecs == InitRecs /\ [][NextRecs]_vars

----------------------------------------------------------------------------
(* SpecOffline: the dashboard with the backend down, every call failing *)

RateKinds ==
    <<MkTask(0, "Done", Null, "", "short"),
      MkTask(0, "In Progress", Null, "", "keyword"),
      MkTask(0, "To-Do", Null, "", "long")>>

InitOffline ==
    /\ projects \in
          {OneProject(RateKinds, idx) :
              idx \in UNION {SortedSeqs(n, Len(RateKinds)) : n \in 0..MaxRateTasks}}
    /\ now = 1
    /\ InitDashboard

NextOffline ==
    \/ Effect
    \/ \E i \in DOMAIN calls : CallReject(i)
    \/ FanIn
    \/ SetRecommendations
    \/ AlertReject
    \/ FinishAdvanced

SpecOffline == InitOffline /\ [][NextOffline]_vars

----------------------------------------------------------------------------
(* SpecRates: generateAdvancedAIInsights, the backend down, over larger     *)
(* task sets of which only the status and the description vary.            *)

InitRates ==
    /\ projects \in
          {OneProject(RateKinds, idx) :
              idx \in UNION {SortedSeqs(n, Len(RateKinds)) : n \in 0..MaxScoreTasks}}
    /\ now = 1
    /\ AfterEffect

NextRates ==
    \/ SetRecommendations
    \/ AlertReject
    \/ FinishAdvanced

SpecRates == InitRates /\ [][NextRates]_vars

----------------------------------------------------------------------------
(* SpecTeam: generateAdvancedAIInsights, the backend down, over projects    *)
(* with members and assignees.                                             *)

Members == {"alice", "bob"}

\* Member lists: addMember never adds an email the list already holds.
MemberLists ==
    {s \in SeqsUpTo(Members, Cardinality(Members)) :
        \A i, j \in 1..Len(s) : s[i] = s[j] => i = j}

Assignees == Members \cup {""}

\* Project names: all different, or all the same.
NamesOf(collide) ==
    [i \in 1..Len(ProjectNames) |->
        IF collide THEN ProjectNames[1] ELSE ProjectNames[i]]

TeamKinds == {MkTask(0, "To-Do", Null, a, "short") : a \in Assignees}

InitTeam ==
    /\ \E k \in 0..MaxTeamProjects : \E c \in TaskCounts(k, MaxTeamTasks) :
          \E members \in [1..k -> MemberLists] :
              \E f \in [1..Offset(c, k + 1) -> TeamKinds] :
                  \E collide \in BOOLEAN :
                      projects = BuildProjects(k, c, NamesOf(collide), members, f)
    /\ now = 1
    /\ AfterEffect

NextTeam ==
    \/ SetRecommendations
    \/ AlertReject
    \/ FinishAdvanced

SpecTeam == InitTeam /\ [][NextTeam]_vars

----------------------------------------------------------------------------
(* Properties of generateRiskAlerts (SpecAlerts) *)

Severities == {"critical", "high", "medium"}

AlertCount(as, task, severity) ==
    Cardinality({k \in 1..Len(as) :
                    as[k].task = task /\ as[k].severity = severity})

\* The rule of the given severity applies to task i: the task is not Done,
\* its insight call was answered, and the answer carries the rule's label.
RuleApplies(i, severity) ==
    /\ AllTasks(projects)[i].status # "Done"
    /\ i \in DOMAIN alertCalls
    /\ alertCalls[i].state = "fulfilled"
    /\ alertCalls[i].data # Null
    /\ \/ severity = "critical" /\ alertCalls[i].data[1].deadline = "overdue"
       \/ severity = "high" /\ alertCalls[i].data[1].deadline = "critical"
       \/ severity = "medium" /\ alertCalls[i].data[1].priority = "high"

\* C3: the alerts set by generateRiskAlerts hold, for every task and every
\* severity, one alert if the rule of that severity applies to the task and
\* none otherwise; every task that is not Done was analysed, and no alert
\* names a Done task.
C3_AlertsByRule ==
    pcAdvanced = "done" =>
        /\ \A i \in 1..Len(AllTasks(projects)) :
              /\ AllTasks(projects)[i].status # "Done" =>
                    i \in DOMAIN alertCalls /\ alertCalls[i].state # "pending"
              /\ \A sev \in Severities :
                    AlertCount(riskAlerts, AllTasks(projects)[i], sev) =
                        IF RuleApplies(i, sev) THEN 1 ELSE 0
        /\ \A k \in 1..Len(riskAlerts) :
              /\ riskAlerts[k].severity \in Severities
              /\ riskAlerts[k].task.status # "Done"
              /\ \E i \in 1..Len(AllTasks(projects)) :
                    riskAlerts[k].task = AllTasks(projects)[i]

\* A finished run with a Done task and a task that is overdue and of high
\* priority, which has both its alerts.
C3_Witness ==
    /\ pcAdvanced = "done"
    /\ \E i, j \in 1..Len(AllTasks(projects)) :
          /\ AllTasks(projects)[i].status = "Done"
          /\ RuleApplies(j, "critical")
          /\ RuleApplies(j, "medium")
          /\ AlertCount(riskAlerts, AllTasks(projects)[j], "critical") = 1
          /\ AlertCount(riskAlerts, AllTasks(projects)[j], "medium") = 1

----------------------------------------------------------------------------
(* Properties of generateSummaryInsights (SpecSummary) *)

\* The risk level and the priority label the answer to call i carries.
AnsweredRisk(i) ==
    IF calls[i].state = "fulfilled" /\ calls[i].data # Null
    THEN calls[i].data[1].deadline ELSE "none"

AnsweredPriority(i) ==
    IF calls[i].state = "fulfilled" /\ calls[i].data # Null
    THEN calls[i].data[1].priority ELSE "none"

\* C4: urgentTasks is the number of insights whose risk level is overdue or
\* critical plus the number of insights whose priority is high, an insight
\* with both counting twice.
C4_UrgentTasks ==
    pcInsights = "done" =>
        insights[1].summary.urgentTasks =
            Cardinality({i \in DOMAIN calls :
                            AnsweredRisk(i) \in {"overdue", "critical"}})
            + Cardinality({i \in DOMAIN calls : AnsweredPriority(i) = "high"})

\* A summary of two insights, one of them both overdue and of high priority,
\* the other critical: urgentTasks is 3.
C4_Witness ==
    /\ pcInsights = "done"
    /\ Len(taskInsights) = 2
    /\ \E i, j \in DOMAIN calls :
          /\ AnsweredRisk(i) = "overdue" /\ AnsweredPriority(i) = "high"
          /\ AnsweredRisk(j) = "critical" /\ AnsweredPriority(j) # "high"
    /\ insights[1].summary.urgentTasks = 3

RECURSIVE SumOver(_, _)
SumOver(f, S) ==
    IF S = {} THEN 0
    ELSE LET x == CHOOSE x \in S : TRUE IN f[x] + SumOver(f, S \ {x})

\* C6: each bucket of the priority histogram counts the insights that carry
\* that priority label and each bucket of the risk histogram the insights
\* that carry that risk level, so that the histograms sum to the number of
\* insights with a priority and with a deadline risk: a failed call, a null
\* body or an absent field adds nothing to any bucket.
C6_AbsentNotCounted ==
    pcInsights = "done" =>
        LET sm == insights[1].summary
        IN  /\ \A l \in PriorityLabels :
                  sm.priorityCounts[l] =
                      Cardinality({i \in DOMAIN calls : AnsweredPriority(i) = l})
            /\ \A l \in RiskLevels :
                  sm.riskCounts[l] =
                      Cardinality({i \in DOMAIN calls : AnsweredRisk(i) = l})
            /\ SumOver(sm.priorityCounts, PriorityLabels) =
                  Cardinality({i \in DOMAIN calls : AnsweredPriority(i) # "none"})
            /\ SumOver(sm.riskCounts, RiskLevels) =
                  Cardinality({i \in DOMAIN calls : AnsweredRisk(i) # "none"})

\* A summary over a failed call and an answer with a risk level but no
\* priority: the priority histogram is empty, the risk histogram holds one.
C6_Witness ==
    /\ pcInsights = "done"
    /\ \E i, j \in DOMAIN calls :
          /\ calls[i].state = "rejected"
          /\ AnsweredPriority(j) = "none" /\ AnsweredRisk(j) # "none"
    /\ SumOver(insights[1].summary.priorityCounts, PriorityLabels) = 0
    /\ SumOver(insights[1].summary.riskCounts, RiskLevels) = 1

\* C8: the summary of the empty insight list has every count, every
\* histogram bucket and the completion rate equal to 0.
C8_EmptySummary ==
    (pcInsights = "done" /\ Len(insights[1].taskInsights) = 0) =>
        insights[1].summary =
            [totalTasks |-> 0, completedTasks |-> 0, inProgressTasks |-> 0,
             todoTasks |-> 0, completionRate |-> 0,
             priorityCounts |-> [l \in PriorityLabels |-> 0],
             riskCounts |-> [l \in RiskLevels |-> 0],
             highRiskTasks |-> 0, highPriorityTasks |-> 0, urgentTasks |-> 0]

\* The summary of a cycle over no task has been set.
C8_Witness ==
    /\ pcInsights = "done"
    /\ insights # Null
    /\ insights[1].taskInsights = << >>

----------------------------------------------------------------------------
(* Properties of generateAIRecommendations (SpecRecs) *)

\* The calendar day of `now`, and the whole days from it to a due date.
Today == now \div TicksPerDay

DaysLeft(t) == t.due[1] - Today

OverdueHolds(tasks) ==
    \E i \in 1..Len(tasks) :
        tasks[i].status # "Done" /\ tasks[i].due # Null /\ DaysLeft(tasks[i]) < 0

WorkloadHolds(tasks) ==
    Cardinality({i \in 1..Len(tasks) : tasks[i].status # "Done"}) > 5

LowCompletionHolds(tasks) ==
    \/ Len(tasks) = 0
    \/ 100 * Cardinality({i \in 1..Len(tasks) : tasks[i].status = "Done"})
          < 30 * Len(tasks)

UpcomingHolds(tasks) ==
    \E i \in 1..Len(tasks) :
        /\ tasks[i].status # "Done" /\ tasks[i].due # Null
        /\ DaysLeft(tasks[i]) >= 0 /\ DaysLeft(tasks[i]) <= 3

CollaborationHolds(tasks) ==
    LET people == {tasks[i].assignee : i \in 1..Len(tasks)} \ {""}
    IN  people # {} /\ Len(tasks) > 3 * Cardinality(people)

AnyTriggerHolds(tasks) ==
    \/ OverdueHolds(tasks)
    \/ WorkloadHolds(tasks)
    \/ LowCompletionHolds(tasks)
    \/ UpcomingHolds(tasks)
    \/ CollaborationHolds(tasks)

IsHealthyRec(r) == r.type = "success" /\ r.priority = "low"

\* C5: generateAIRecommendations returns at least one recommendation; what
\* it returns is the single 'healthy' recommendation (type success, priority
\* low) exactly if none of the five trigger conditions holds, and the
\* 'healthy' recommendation never comes with another one.
C5_DefaultIffNoTrigger ==
    pcAdvanced = "alerts" =>
        /\ Len(aiRecommendations) >= 1
        /\ (Len(aiRecommendations) = 1 /\ IsHealthyRec(aiRecommendations[1]))
              <=> ~AnyTriggerHolds(AllTasks(projects))
        /\ \A k \in 1..Len(aiRecommendations) :
              IsHealthyRec(aiRecommendations[k]) => Len(aiRecommendations) = 1

\* The recommendations of a portfolio in which no trigger holds although it
\* has a task that is not Done, a task with a due date and an assignee.
C5_Witness ==
    /\ pcAdvanced = "alerts"
    /\ aiRecommendations = <<DefaultRec>>
    /\ \E i, j, k \in 1..Len(AllTasks(projects)) :
          /\ AllTasks(projects)[i].status # "Done"
          /\ AllTasks(projects)[j].due # Null
          /\ AllTasks(projects)[k].assignee # ""

HasRec(type) ==
    \E k \in 1..Len(aiRecommendations) : aiRecommendations[k].type = type

\* The recommendations of the given type.
RecsOf(type) ==
    {k \in 1..Len(aiRecommendations) : aiRecommendations[k].type = type}

\* C12: the 'Team Collaboration Opportunity' recommendation (priority low)
\* is emitted, once, exactly if there is a non-empty assignee and the number
\* of tasks divided by the number of distinct non-empty assignees is greater
\* than 3; at exactly 3 tasks per assignee it is not emitted.
C12_CollaborationAboveThree ==
    pcAdvanced = "alerts" =>
        LET tasks == AllTasks(projects)
            people == {tasks[i].assignee : i \in 1..Len(tasks)} \ {""}
        IN  /\ HasRec("collaboration") <=>
                  (people # {} /\ Len(tasks) > 3 * Cardinality(people))
            /\ Cardinality(RecsOf("collaboration")) <= 1
            /\ \A k \in RecsOf("collaboration") :
                  /\ aiRecommendations[k].title = "Team Collaboration Opportunity"
                  /\ aiRecommendations[k].priority = "low"
            /\ (people # {} /\ Len(tasks) = 3 * Cardinality(people)) =>
                  ~HasRec("collaboration")

\* Six tasks, each assigned to one of two members: an average of exactly 3,
\* and no collaboration recommendation.
C12_Witness ==
    /\ pcAdvanced = "alerts"
    /\ Len(AllTasks(projects)) = 6
    /\ {AllTasks(projects)[i].assignee : i \in 1..6} = {"alice", "bob"}
    /\ ~HasRec("collaboration")

\* The tasks that are not Done and are due within 0 to 3 days of today.
DueSoon(tasks) ==
    {i \in 1..Len(tasks) :
        /\ tasks[i].status # "Done" /\ tasks[i].due # Null
        /\ DaysLeft(tasks[i]) >= 0 /\ DaysLeft(tasks[i]) <= 3}

\* C13 as stated: the 'Upcoming Deadlines' recommendation is emitted exactly
\* if a task that is not Done is due within 0 to 3 days of today, a task due
\* today included, and the number in its description is the number of such
\* tasks.
C13_UpcomingWithinThreeDays ==
    pcAdvanced = "alerts" =>
        /\ HasRec("deadline") <=> DueSoon(AllTasks(projects)) # {}
        /\ \A k \in RecsOf("deadline") :
              aiRecommendations[k].count = Cardinality(DueSoon(AllTasks(projects)))

\* The tasks that are not Done and were due before today.
PastDue(tasks) ==
    {i \in 1..Len(tasks) :
        /\ tasks[i].status # "Done" /\ tasks[i].due # Null
        /\ DaysLeft(tasks[i]) < 0}

\* C14 as stated: the 'Overdue Tasks Detected' recommendation is emitted
\* exactly if some task that is not Done has a due date before today; a task
\* due today is not overdue, and the number reported is the number of overdue
\* tasks.
C14_OverdueBeforeToday ==
    pcAdvanced = "alerts" =>
        /\ HasRec("urgent") <=> PastDue(AllTasks(projects)) # {}
        /\ \A k \in RecsOf("urgent") :
              aiRecommendations[k].count = Cardinality(PastDue(AllTasks(projects)))

----------------------------------------------------------------------------
(* Properties of the completion rates (SpecOffline) *)

DoneCount(tasks) == Cardinality({i \in 1..Len(tasks) : tasks[i].status = "Done"})

\* A rate in tenths lies in [0,100] and is 0 for the empty collection.
RateOk(rate, tasks) ==
    /\ rate >= 0
    /\ rate <= 1000
    /\ Len(tasks) = 0 => rate = 0

\* C7: the completion rate of the summary, of the productivity insights and
\* of the recommendation generator each lie in [0,100] and are 0 for the
\* empty task collection.
C7_CompletionRateRange ==
    LET tasks == AllTasks(projects)
        rec == RecCompletionRate(tasks)
    IN  /\ insights # Null => RateOk(insights[1].summary.completionRate, tasks)
        /\ productivityInsights # Null =>
              RateOk(productivityInsights[1].completionRate, tasks)
        /\ pcAdvanced \in {"alerts", "done"} =>
              /\ rec.den > 0
              /\ rec.num >= 0
              /\ rec.num <= 100 * rec.den
              /\ Len(tasks) = 0 => rec.num = 0
              /\ (\E k \in 1..Len(aiRecommendations) :
                      aiRecommendations[k].type = "productivity")
                    <=> 100 * DoneCount(tasks) < 30 * Len(tasks) \/ Len(tasks) = 0

\* The three rates computed over the empty task collection.
C7_Witness ==
    /\ AllTasks(projects) = << >>
    /\ insights # Null
    /\ productivityInsights # Null
    /\ insights[1].summary.completionRate = 0
    /\ productivityInsights[1].completionRate = 0

----------------------------------------------------------------------------
(* Properties of generateTeamInsights (SpecTeam) *)

\* The positions in Object.keys(memberTaskCounts) of the members with the
\* highest task count.
TopPositions ==
    LET keys == MemberKeys(projects)
    IN  {k \in 1..Len(keys) :
            \A h \in 1..Len(keys) :
                MemberTaskCount(projects, keys[h]) <= MemberTaskCount(projects, keys[k])}

Least(S) == CHOOSE x \in S : \A y \in S : x <= y

Greatest(S) == CHOOSE x \in S : \A y \in S : y <= x

\* C9 as stated: mostActiveMember is the first, in member iteration order,
\* of the members with the highest task count.
C9_FirstOfHighest ==
    (pcAdvanced = "done" /\ MemberKeys(projects) # << >>) =>
        teamInsights[1].mostActiveMember = MemberKeys(projects)[Least(TopPositions)]

\* C9 amended: mostActiveMember is the last, in member iteration order, of
\* the members with the highest task count, and 'None' without members.
C9_LastOfHighest ==
    pcAdvanced = "done" =>
        teamInsights[1].mostActiveMember =
            IF MemberKeys(projects) = << >> THEN "None"
            ELSE MemberKeys(projects)[Greatest(TopPositions)]

\* Team insights over two members who share the highest count, which is not 0.
C9_Witness ==
    /\ pcAdvanced = "done"
    /\ Cardinality(TopPositions) = 2
    /\ MemberTaskCount(projects, MemberKeys(projects)[1]) > 0
    /\ teamInsights[1].mostActiveMember = MemberKeys(projects)[2]

\* C10 as stated: the task count of a member is the number of tasks of all
\* projects whose assignee is that member.
C10_CountsAllAssigned ==
    pcAdvanced = "done" =>
        \A k \in 1..Len(MemberKeys(projects)) :
            MemberTaskCount(projects, MemberKeys(projects)[k]) =
                Cardinality({i \in 1..Len(AllTasks(projects)) :
                    AllTasks(projects)[i].assignee = MemberKeys(projects)[k]})

\* The member identifiers of all projects.
DistinctMembers(ps) == UNION {Range(ps[i].members) : i \in 1..Len(ps)}

\* The sum of the per-member counts the function keeps: every task whose
\* assignee is a member of the task's own project counts once.
CountedTasks(ps) ==
    Cardinality({ij \in (1..Len(ps)) \X (1..Len(AllTasks(ps))) :
                    /\ ij[2] <= Len(ps[ij[1]].tasks)
                    /\ ps[ij[1]].tasks[ij[2]].assignee \in Range(ps[ij[1]].members)})

\* r, in tenths, is the quotient num / den to one decimal.
IsTenthsOf(r, num, den) ==
    /\ 2 * den * r <= 20 * num + den
    /\ 20 * num + den < 2 * den * (r + 1)

\* C11: totalMembers is the number of distinct member identifiers over all
\* projects, and avgTasksPerMember is the sum of the per-member task counts
\* divided by totalMembers (to one decimal), 0 when there is no member.
C11_MembersAndAverage ==
    pcAdvanced = "done" =>
        LET team == teamInsights[1]
            members == DistinctMembers(projects)
        IN  /\ team.totalMembers = Cardinality(members)
            /\ SumOver([m \in members |-> MemberTaskCount(projects, m)], members)
                  = CountedTasks(projects)
            /\ members = {} => team.avgTasksPerMember = 0
            /\ members # {} =>
                  IsTenthsOf(team.avgTasksPerMember, CountedTasks(projects),
                             Cardinality(members))

\* Team insights over two projects that share a member, the members having
\* one task between the two of them: totalMembers 2, average 0.5.
C11_Witness ==
    /\ pcAdvanced = "done"
    /\ Len(projects) = 2
    /\ Range(projects[1].members) \cap Range(projects[2].members) # {}
    /\ teamInsights[1].totalMembers = 2
    /\ teamInsights[1].avgTasksPerMember = 5

----------------------------------------------------------------------------
(* Properties of the rates and scores (SpecRates) *)

InProgressCount(tasks) ==
    Cardinality({i \in 1..Len(tasks) : tasks[i].status = "In Progress"})

\* C15: the 'Productivity Optimization' recommendation (priority medium) is
\* emitted, once, exactly if the completion rate of the task set (0 for the
\* empty set) is below 30; with exactly 30% of the tasks Done it is not.
C15_LowCompletionBelowThirty ==
    pcAdvanced \in {"alerts", "done"} =>
        LET tasks == AllTasks(projects)
        IN  /\ HasRec("productivity") <=>
                  (Len(tasks) = 0 \/ 100 * DoneCount(tasks) < 30 * Len(tasks))
            /\ Cardinality(RecsOf("productivity")) <= 1
            /\ \A k \in RecsOf("productivity") :
                  /\ aiRecommendations[k].title = "Productivity Optimization"
                  /\ aiRecommendations[k].priority = "medium"
            /\ (Len(tasks) > 0 /\ 10 * DoneCount(tasks) = 3 * Len(tasks)) =>
                  ~HasRec("productivity")

\* Ten tasks of which three are Done: no productivity recommendation.
C15_Witness ==
    /\ pcAdvanced = "alerts"
    /\ Len(AllTasks(projects)) = 10
    /\ DoneCount(AllTasks(projects)) = 3
    /\ ~HasRec("productivity")

\* C16: productivityScore is min(100, (completionRate + progressRate) / 2)
\* to one decimal, the rates being Done / total * 100 and (Done + In
\* Progress) / total * 100; for the empty task set the two rates,
\* complexTasks, avgTaskComplexity and productivityScore are all 0.
C16_ProductivityScore ==
    pcAdvanced = "done" =>
        LET tasks == AllTasks(projects)
            pi == productivityInsights[1]
            halfSum == (2 * DoneCount(tasks) + InProgressCount(tasks)) * 100
        IN  /\ Len(tasks) > 0 =>
                  /\ halfSum <= 100 * 2 * Len(tasks)
                  /\ IsTenthsOf(pi.productivityScore, halfSum, 2 * Len(tasks))
                  /\ pi.productivityScore <= 1000
            /\ Len(tasks) = 0 =>
                  /\ pi.completionRate = 0
                  /\ pi.progressRate = 0
                  /\ pi.complexTasks = 0
                  /\ pi.avgTaskComplexity = 0
                  /\ pi.productivityScore = 0

\* The insights of one Done, one In Progress and one To-Do task: rates 33.3
\* and 66.7, score 50.0.
C16_Witness ==
    /\ pcAdvanced = "done"
    /\ Len(AllTasks(projects)) = 3
    /\ productivityInsights[1].completionRate = 333
    /\ productivityInsights[1].progressRate = 667
    /\ productivityInsights[1].productivityScore = 500

\* C17: completionRate is Done / total * 100 and progressRate is (Done + In
\* Progress) / total * 100, each to one decimal; 10 tasks with 3 Done, 2 In
\* Progress and 5 To-Do give 30.0 and 50.0.
C17_CompletionAndProgress ==
    pcAdvanced = "done" =>
        LET tasks == AllTasks(projects)
            pi == productivityInsights[1]
        IN  /\ Len(tasks) > 0 =>
                  /\ IsTenthsOf(pi.completionRate, DoneCount(tasks) * 100, Len(tasks))
                  /\ IsTenthsOf(pi.progressRate,
                                (DoneCount(tasks) + InProgressCount(tasks)) * 100,
                                Len(tasks))
            /\ (Len(tasks) = 10 /\ DoneCount(tasks) = 3
                    /\ InProgressCount(tasks) = 2) =>
                  /\ pi.completionRate = 300
                  /\ pi.progressRate = 500

\* The insights of 10 tasks, 3 Done, 2 In Progress and 5 To-Do.
C17_Witness ==
    /\ pcAdvanced = "done"
    /\ Len(AllTasks(projects)) = 10
    /\ DoneCount(AllTasks(projects)) = 3
    /\ InProgressCount(AllTasks(projects)) = 2
    /\ productivityInsights[1].completionRate = 300
    /\ productivityInsights[1].progressRate = 500

----------------------------------------------------------------------------
(* Properties of a whole analysis cycle (SpecCycle, SpecOffline) *)

\* The alerts the rules of generateRiskAlerts give for the tasks that are
\* not Done, task i being analysed with the insight insightOf[i].
AlertsFrom(tasks, insightOf) ==
    Flatten([i \in 1..Len(tasks) |->
                IF tasks[i].status = "Done" \/ i \notin DOMAIN insightOf
                THEN << >>
                ELSE AlertsFor(tasks[i], insightOf[i])])

\* C18 as stated: the insight of each task is resolved by one call, and the
\* risk alerts are computed from the same resolved insights as the summary:
\* no task has a second call, and the alerts are those the rules give for
\* the insights held in the summary's list.
C18_OneInsightPerTask ==
    (pcInsights = "done" /\ pcAdvanced = "done") =>
        /\ DOMAIN alertCalls = {}
        /\ riskAlerts =
              AlertsFrom(AllTasks(projects),
                         [i \in DOMAIN insights[1].taskInsights |->
                             insights[1].taskInsights[i].insight])

\* C19 as stated: with the backend unavailable the insight of every task
\* still carries a priority (from the rule-based fallback), never a missing
\* one.
C19_PriorityWhenUnavailable ==
    pcInsights = "done" =>
        \A i \in DOMAIN insights[1].taskInsights :
            calls[i].state = "rejected" =>
                /\ insights[1].taskInsights[i].insight # Null
                /\ PriorityOf(insights[1].taskInsights[i].insight) \in PriorityLabels

\* An entry list, and the answers of generateRiskAlerts, without summaries.
EraseSummary(entries) ==
    [i \in DOMAIN entries |->
        [task |-> entries[i].task, insight |-> WithSummary(entries[i].insight, "none")]]

ErasedAnswers ==
    [i \in {j \in DOMAIN alertCalls : alertCalls[j].state = "fulfilled"} |->
        WithSummary(alertCalls[i].data, "none")]

SummaryOf(insight) == IF insight = Null THEN "none" ELSE insight[1].summary

\* C20: the portfolio summary is the one of the same insight list with every
\* summary field removed, and the alerts are those of the same answers with
\* every summary field removed: lists that differ only in the summary fields
\* give the same summary and the same alerts.
C20_SummaryFieldIgnored ==
    /\ pcInsights = "done" =>
          insights[1].summary =
              generateSummaryInsights(EraseSummary(insights[1].taskInsights))
    /\ pcAdvanced = "done" =>
          riskAlerts = AlertsFrom(AllTasks(projects), ErasedAnswers)

\* A finished cycle over two tasks whose insights carry the same labels, one
\* with a summary and one without, in the summary's list and in the answers
\* the alerts were made from; both are counted and both have their alerts.
C20_Witness ==
    /\ pcInsights = "done"
    /\ pcAdvanced = "done"
    /\ Len(insights[1].taskInsights) = 2
    /\ SummaryOf(insights[1].taskInsights[1].insight) = "a summary"
    /\ SummaryOf(insights[1].taskInsights[2].insight) = "none"
    /\ insights[1].summary.highPriorityTasks = 2
    /\ DOMAIN alertCalls = {1, 2}
    /\ SummaryOf(alertCalls[1].data) = "none"
    /\ SummaryOf(alertCalls[2].data) = "a summary"
    /\ Len(riskAlerts) = 4

----------------------------------------------------------------------------
(* SpecOverlap: '+ New Project' is clicked in the dashboard view.  The      *)
(* button is in App's header in both views; `projects` changes, the effect *)
(* runs again, and the async functions the earlier run of the effect       *)
(* started go on with the project list they captured: nothing cancels      *)
(* them, and their setState calls are not guarded.  `earlier` holds the    *)
(* locals of the superseded run, the run variables those of the latest.    *)

OverlapBodies == {Some(MkInsight("high", "overdue"))}

\* The locals of the run in progress, as the superseded run keeps them.
RunLocals ==
    [projects |-> projects, calls |-> calls, taskInsights |-> taskInsights,
     pcInsights |-> pcInsights, pcAdvanced |-> pcAdvanced,
     alertIdx |-> alertIdx, alertCalls |-> alertCalls, alerts |-> alerts]

\* addProject('New Project') while the dashboard is mounted, and the effect
\* that the new `projects` triggers.
AddProjectOnDashboard ==
    /\ earlier = Null
    /\ pcInsights # "idle"
    /\ earlier' = Some(RunLocals)
    /\ projects' = addProject(projects, "New Project")
    /\ loading' = TRUE
    /\ calls' = [i \in 1..Len(AllTasks(projects')) |-> Pending]
    /\ taskInsights' = << >>
    /\ pcInsights' = "awaiting"
    /\ pcAdvanced' = "recommendations"
    /\ UNCHANGED <<now, newTask, showAddTask, pcDetail, riskCall, insights,
                   aiRecommendations, riskAlerts, productivityInsights,
                   teamInsights, alertIdx, alertCalls, alerts>>

\* What a step of the superseded run leaves alone.
EarlierFrame ==
    UNCHANGED <<projects, now, newTask, showAddTask, pcDetail, riskCall, calls,
                taskInsights, pcInsights, pcAdvanced, alertIdx, alertCalls,
                alerts>>

\* A call of the superseded run for task i is answered or fails.
EarlierCallSettle(i, call) ==
    /\ earlier # Null
    /\ earlier[1].pcInsights = "awaiting"
    /\ i \in DOMAIN earlier[1].calls
    /\ earlier[1].calls[i].state = "pending"
    /\ earlier' =
          Some([earlier[1] EXCEPT
                  !.calls[i] = call,
                  !.taskInsights =
                      Collect(@, i,
                              IF call.state = "rejected"
                              THEN CatchEntry(AllTasks(earlier[1].projects)[i])
                              ELSE ResolvedEntry(AllTasks(earlier[1].projects)[i],
                                                 call.data))])
    /\ EarlierFrame
    /\ UNCHANGED <<loading, insights, aiRecommendations, riskAlerts,
                   productivityInsights, teamInsights>>

\* The Promise.all of the superseded run resolves: setInsights,
\* setLoading(false).
EarlierFanIn ==
    /\ earlier # Null
    /\ earlier[1].pcInsights = "awaiting"
    /\ AllSettled(earlier[1].calls)
    /\ insights' =
          Some([taskInsights |-> earlier[1].taskInsights,
                summary |-> generateSummaryInsights(earlier[1].taskInsights)])
    /\ loading' = FALSE
    /\ earlier' = Some([earlier[1] EXCEPT !.pcInsights = "done"])
    /\ EarlierFrame
    /\ UNCHANGED <<aiRecommendations, riskAlerts, productivityInsights,
                   teamInsights>>

\* The superseded run resumes after generateAIRecommendations.
EarlierSetRecommendations ==
    /\ earlier # Null
    /\ earlier[1].pcAdvanced = "recommendations"
    /\ aiRecommendations' =
          generateAIRecommendations(AllTasks(earlier[1].projects), now)
    /\ LET first == NextAlertIdx(AllTasks(earlier[1].projects), 1)
       IN  earlier' =
              Some([earlier[1] EXCEPT
                      !.alerts = << >>,
                      !.alertIdx = first,
                      !.alertCalls = IF first = 0 THEN << >>
                                     ELSE (first :> Pending),
                      !.pcAdvanced = "alerts"])
    /\ EarlierFrame
    /\ UNCHANGED <<loading, insights, riskAlerts, productivityInsights,
                   teamInsights>>

\* The awaited call of the superseded run's generateRiskAlerts settles.
EarlierAlertSettle(call) ==
    /\ earlier # Null
    /\ earlier[1].pcAdvanced = "alerts"
    /\ earlier[1].alertIdx # 0
    /\ LET tasks == AllTasks(earlier[1].projects)
           idx == earlier[1].alertIdx
           next == NextAlertIdx(tasks, idx + 1)
           settled == [earlier[1].alertCalls EXCEPT ![idx] = call]
       IN  earlier' =
              Some([earlier[1] EXCEPT
                      !.alerts = IF call.state = "rejected" THEN @
                                 ELSE @ \o AlertsFor(tasks[idx], call.data),
                      !.alertIdx = next,
                      !.alertCalls = IF next = 0 THEN settled
                                     ELSE (next :> Pending) @@ settled])
    /\ EarlierFrame
    /\ UNCHANGED <<loading, insights, aiRecommendations, riskAlerts,
                   productivityInsights, teamInsights>>

\* The superseded run's generateRiskAlerts has returned.
EarlierFinishAdvanced ==
    /\ earlier # Null
    /\ earlier[1].pcAdvanced = "alerts"
    /\ earlier[1].alertIdx = 0
    /\ riskAlerts' = earlier[1].alerts
    /\ productivityInsights' =
          Some(generateProductivityInsights(AllTasks(earlier[1].projects)))
    /\ teamInsights' = Some(generateTeamInsights(earlier[1].projects))
    /\ earlier' = Some([earlier[1] EXCEPT !.pcAdvanced = "done"])
    /\ EarlierFrame
    /\ UNCHANGED <<loading, insights, aiRecommendations>>

OverlapCalls == {Rejected} \cup {Fulfilled(d) : d \in OverlapBodies}

\* The dashboard is opened on App's initial project list.
InitOverlap ==
    /\ projects = InitialProjects
    /\ now = 1
    /\ InitDashboard

NextOverlap ==
    \/ Effect
    \/ \E i \in DOMAIN calls : \E data \in OverlapBodies : CallFulfil(i, data)
    \/ \E i \in DOMAIN calls : CallReject(i)
    \/ FanIn
    \/ SetRecommendations
    \/ \E data \in OverlapBodies : AlertFulfil(data)
    \/ AlertReject
    \/ FinishAdvanced
    \/ AddProjectOnDashboard
    \/ \E i \in 1..Len(AllTasks(InitialProjects)) : \E call \in OverlapCalls :
          EarlierCallSettle(i, call)
    \/ EarlierFanIn
    \/ EarlierSetRecommendations
    \/ \E call \in OverlapCalls : EarlierAlertSettle(call)
    \/ EarlierFinishAdvanced

SpecOverlap == InitOverlap /\ [][NextOverlap]_vars

----------------------------------------------------------------------------
(* The deadline-risk endpoint behind getDeadlineRisk (src/src/api.js, 5-12; *)
(* the README shows one request and its response).  The analyser that      *)
(* answers it is not among the sources; it is written down here from the   *)
(* rules of the DeadlineRiskAnalyzer.                                      *)

MaxDaysBehind == 2
MaxDaysAhead == 9

Complexities == {"low", "medium", "high"}

\* The scale low < medium < high < critical < overdue.
RiskScale == <<"low", "medium", "high", "critical", "overdue">>

RiskRank(level) == CHOOSE k \in 1..Len(RiskScale) : RiskScale[k] = level

\* daysLeft < 0: overdue; 0..1: critical; <= 3: high; <= 7: medium; else low
BaseRisk(daysLeft) ==
    IF daysLeft < 0 THEN "overdue"
    ELSE IF daysLeft <= 1 THEN "critical"
    ELSE IF daysLeft <= 3 THEN "high"
    ELSE IF daysLeft <= 7 THEN "medium"
    ELSE "low"

\* An adjustment that takes the two complexities the wrong way round.
AdjustRiskInverted(base, complexity) ==
    IF complexity = "low" /\ RiskRank(base) < Len(RiskScale)
    THEN RiskScale[RiskRank(base) + 1]
    ELSE IF complexity = "high" /\ RiskRank(base) > 1
         THEN RiskScale[RiskRank(base) - 1]
         ELSE base

\* "high" complexity escalates by one step, never beyond overdue; "low"
\* complexity de-escalates by one step, never below low.
AdjustRisk(base, complexity) ==
    IF complexity = "high" /\ RiskRank(base) < Len(RiskScale)
    THEN RiskScale[RiskRank(base) + 1]
    ELSE IF complexity = "low" /\ RiskRank(base) > 1
         THEN RiskScale[RiskRank(base) - 1]
         ELSE base

\* The fixed, ordered recommendations of a risk level, two per level as in
\* the README's response.
RiskRecommendations(level) == <<<<level, 1>>, <<level, 2>>>>

\* An analyser that adjusts the level of a task without a due date too.
DeadlineRiskAdjustsUndated(due, complexity, today) ==
    IF due = Null
    THEN [daysLeft |-> Null, riskLevel |-> AdjustRisk("low", complexity),
          recommendations |-> << >>]
    ELSE [daysLeft |-> Some(due[1] - today),
          riskLevel |-> AdjustRisk(BaseRisk(due[1] - today), complexity),
          recommendations |->
              RiskRecommendations(AdjustRisk(BaseRisk(due[1] - today), complexity))]

\* No due date: low, daysLeft null, no recommendations.  Otherwise
\* daysLeft = due - today in whole days and the adjusted base level.
DeadlineRisk(due, complexity, today) ==
    IF due = Null
    THEN [daysLeft |-> Null, riskLevel |-> "low", recommendations |-> << >>]
    ELSE [daysLeft |-> Some(due[1] - today),
          riskLevel |-> AdjustRisk(BaseRisk(due[1] - today), complexity),
          recommendations |->
              RiskRecommendations(AdjustRisk(BaseRisk(due[1] - today), complexity))]

\* The due dates a call is made with: none (addTask stores null for an
\* empty date) or a day around `now`.
DueDates == {Null} \cup {Some(d) : d \in (0 - MaxDaysBehind)..MaxDaysAhead}

RiskFrame ==
    /\ UNCHANGED <<projects, now, earlier, newTask, showAddTask, pcDetail>>
    /\ UNCHANGED insightVars
    /\ UNCHANGED advancedVars

\* getDeadlineRisk(dueDate, taskComplexity): the request is posted.
GetDeadlineRisk(due, complexity) ==
    /\ riskCall.state = "none"
    /\ riskCall' = [state |-> "pending", due |-> due,
                    complexity |-> complexity, data |-> Null]
    /\ RiskFrame

\* The endpoint answers; getDeadlineRisk returns res.data.
DeadlineRiskFulfil ==
    /\ riskCall.state = "pending"
    /\ riskCall' = [riskCall EXCEPT
                       !.state = "fulfilled",
                       !.data = Some(DeadlineRisk(riskCall.due, riskCall.complexity,
                                                  now \div TicksPerDay))]
    /\ RiskFrame

\* The request fails: getDeadlineRisk has no catch, the promise rejects.
DeadlineRiskReject ==
    /\ riskCall.state = "pending"
    /\ riskCall' = [riskCall EXCEPT !.state = "rejected"]
    /\ RiskFrame

InitRisk ==
    /\ projects = InitialProjects
    /\ now \in 0..(2 * TicksPerDay - 1)
    /\ InitDashboard

NextRisk ==
    \/ \E due \in DueDates : \E complexity \in Complexities :
          GetDeadlineRisk(due, complexity)
    \/ DeadlineRiskFulfil
    \/ DeadlineRiskReject

SpecRisk == InitRisk /\ [][NextRisk]_vars

----------------------------------------------------------------------------
(* Properties of the projects view (SpecProjects) *)

NoDuplicates(s) == \A i, j \in 1..Len(s) : s[i] = s[j] => i = j

\* C21: in every project the task ids are pairwise distinct and the member
\* list holds no identifier twice, whatever addTask, updateTask, deleteTask
\* and addMember operations were made.
C21_UniqueIdsAndMembers ==
    \A i \in 1..Len(projects) :
        /\ NoDuplicates([k \in 1..Len(projects[i].tasks) |-> projects[i].tasks[k].id])
        /\ NoDuplicates(projects[i].members)

\* A project whose first task was deleted and that got a new task after
\* that, one of its tasks updated, and a second project with an added
\* member.
C21_Witness ==
    /\ Len(projects) = 2
    /\ Len(projects[1].tasks) = 2
    /\ projects[1].tasks[1].id = 2
    /\ projects[1].tasks[1].status = "Done"
    /\ projects[1].tasks[2].id = 3
    /\ projects[2].members = <<"bob">>

\* C30: a step that changes the project list without adding a project
\* changes exactly one project, which keeps its id, and leaves the number
\* and the order of the projects as they were; addTask with a title that is
\* empty or blank changes neither the projects nor the form.
C30_UpdateFrame ==
    [][/\ (projects' # projects /\ Len(projects') = Len(projects)) =>
             /\ \A i \in 1..Len(projects) : projects'[i].id = projects[i].id
             /\ Cardinality({i \in 1..Len(projects) :
                                projects'[i] # projects[i]}) = 1
       /\ (pcDetail' = "addTask" /\ Trim(newTask.title) = "") =>
             /\ projects' = projects
             /\ newTask' = newTask
             /\ showAddTask' = showAddTask]_vars

\* Two projects, the first one updated, and addTask was the last handler to
\* run, on a form that is still open with a blank title.
C30_Witness ==
    /\ Len(projects) = 2
    /\ projects[1] # InitialProjects[1]
    /\ projects[1].id = 1
    /\ projects[2] = MkProject(2, "New Project", << >>, << >>)
    /\ pcDetail = "addTask"
    /\ showAddTask
    /\ newTask.title = " "

----------------------------------------------------------------------------
(* Properties of the project distribution (SpecTeam) *)

\* C22: the project distribution has one entry per distinct project name,
\* and the entry of a name holds the task count of the last project of
\* that name alone: a later project of the same name overwrites the count
\* of an earlier one.
C22_DistributionKeyedByName ==
    teamInsights # Null =>
        LET dist == teamInsights[1].projectDistribution
        IN  /\ DOMAIN dist = {projects[i].name : i \in 1..Len(projects)}
            /\ \A i \in 1..Len(projects) :
                  (\A j \in 1..Len(projects) :
                        projects[j].name = projects[i].name => j <= i)
                  => dist[projects[i].name] = Len(projects[i].tasks)

\* Two projects of one name, the earlier with a task and the later with
\* none: the single entry is 0.
C22_Witness ==
    /\ teamInsights # Null
    /\ Len(projects) = 2
    /\ projects[1].name = projects[2].name
    /\ Len(projects[1].tasks) = 1
    /\ Len(projects[2].tasks) = 0
    /\ teamInsights[1].projectDistribution[projects[1].name] = 0

----------------------------------------------------------------------------
(* Properties of the recommendations of an empty portfolio (SpecTeam) *)

\* C26: for a portfolio without any task generateAIRecommendations returns
\* exactly one recommendation, 'Productivity Optimization' (the completion
\* rate of no task is 0, below 30), and not the default 'healthy' one.
C26_EmptyPortfolioRecommendation ==
    (pcAdvanced \in {"alerts", "done"} /\ AllTasks(projects) = << >>) =>
        /\ Len(aiRecommendations) = 1
        /\ aiRecommendations[1].type = "productivity"
        /\ aiRecommendations[1].title = "Productivity Optimization"
        /\ aiRecommendations[1] # DefaultRec

\* The recommendations were set for two projects that have members but no
\* task.
C26_Witness ==
    /\ pcAdvanced \in {"alerts", "done"}
    /\ Len(projects) = 2
    /\ projects[1].members # << >>
    /\ AllTasks(projects) = << >>
    /\ Len(aiRecommendations) = 1

----------------------------------------------------------------------------
(* Properties of the order of the risk alerts (SpecAlerts) *)

\* The position in the input of the task an alert names.
TaskPosition(alert) ==
    CHOOSE i \in 1..Len(AllTasks(projects)) : AllTasks(projects)[i] = alert.task

\* At most two alerts per task, the alerts in the order of the tasks, a
\* task's deadline alert before its priority alert, and no alert for a task
\* whose call failed.
WellOrderedAlerts(as) ==
    /\ \A i \in 1..Len(AllTasks(projects)) :
          Cardinality({k \in 1..Len(as) : as[k].task = AllTasks(projects)[i]}) <= 2
    /\ \A k, l \in 1..Len(as) :
          k < l =>
              /\ TaskPosition(as[k]) <= TaskPosition(as[l])
              /\ TaskPosition(as[k]) = TaskPosition(as[l]) =>
                    /\ as[k].severity \in {"critical", "high"}
                    /\ as[l].severity = "medium"
    /\ \A i \in DOMAIN alertCalls :
          alertCalls[i].state = "rejected" =>
              \A k \in 1..Len(as) : as[k].task # AllTasks(projects)[i]

\* C27: all through the loop of generateRiskAlerts and once its result is
\* set, the alert list holds at most two alerts per task, in input task
\* order, the deadline alert (severity critical or high) of a task before
\* its priority alert (severity medium); a task whose call failed has no
\* alert, and the alerts of the other tasks are there all the same.
C27_AlertOrder ==
    /\ pcAdvanced \in {"alerts", "done"} => WellOrderedAlerts(alerts)
    /\ pcAdvanced = "done" =>
          /\ WellOrderedAlerts(riskAlerts)
          /\ \A i \in DOMAIN alertCalls :
                (alertCalls[i].state = "fulfilled" /\ alertCalls[i].data # Null
                    /\ alertCalls[i].data[1].deadline \in {"overdue", "critical"})
                => \E k \in 1..Len(riskAlerts) :
                      /\ riskAlerts[k].task = AllTasks(projects)[i]
                      /\ riskAlerts[k].severity \in {"critical", "high"}

\* The first task's call failed and the second task has its two alerts,
\* the deadline alert first.
C27_Witness ==
    /\ pcAdvanced = "done"
    /\ Len(AllTasks(projects)) = 2
    /\ DOMAIN alertCalls = {1, 2}
    /\ alertCalls[1].state = "rejected"
    /\ Len(riskAlerts) = 2
    /\ riskAlerts[1].task = AllTasks(projects)[2]
    /\ riskAlerts[1].severity = "critical"
    /\ riskAlerts[2].task = AllTasks(projects)[2]
    /\ riskAlerts[2].severity = "medium"

----------------------------------------------------------------------------
(* Properties of the sums of the summary (SpecSummary) *)

\* C28: in every summary totalTasks is the sum of the completed, the
\* in-progress and the to-do tasks, highRiskTasks is the sum of the overdue
\* and the critical bucket of the risk histogram, highPriorityTasks is the
\* high bucket of the priority histogram, and neither histogram sums to
\* more than totalTasks.
C28_SummarySums ==
    insights # Null =>
        LET sm == insights[1].summary
        IN  /\ sm.totalTasks =
                  sm.completedTasks + sm.inProgressTasks + sm.todoTasks
            /\ sm.highRiskTasks = sm.riskCounts["overdue"] + sm.riskCounts["critical"]
            /\ sm.highPriorityTasks = sm.priorityCounts["high"]
            /\ SumOver(sm.priorityCounts, PriorityLabels) <= sm.totalTasks
            /\ SumOver(sm.riskCounts, RiskLevels) <= sm.totalTasks

\* A summary over a Done task and a task in progress, one call failed and
\* the other answered critical with a high priority: the counts agree with
\* the histograms, which sum to less than totalTasks.
C28_Witness ==
    /\ insights # Null
    /\ insights[1].summary.totalTasks = 2
    /\ insights[1].summary.completedTasks = 1
    /\ insights[1].summary.inProgressTasks = 1
    /\ insights[1].summary.riskCounts["critical"] = 1
    /\ insights[1].summary.highRiskTasks = 1
    /\ insights[1].summary.highPriorityTasks = 1
    /\ SumOver(insights[1].summary.riskCounts, RiskLevels) = 1
    /\ \E i \in DOMAIN calls : calls[i].state = "rejected"

----------------------------------------------------------------------------
(* Properties of the loading flag (SpecLive) *)

\* C29: a run of generateProjectInsights sets loading to true when it
\* starts and, every call settling at some time, comes to its end with
\* loading set to false.
C29_LoadingEventuallyFalse ==
    /\ [][(pcInsights = "idle" /\ pcInsights' = "awaiting") => loading']_vars
    /\ (pcInsights = "awaiting") ~> (pcInsights = "done" /\ ~loading)

\* A run over two tasks has ended, one call failed and one answered, and
\* loading is false.
C29_Witness ==
    /\ pcInsights = "done"
    /\ ~loading
    /\ Len(calls) = 2
    /\ calls[1].state = "rejected"
    /\ calls[2].state = "fulfilled"

----------------------------------------------------------------------------
(* Properties of the deadline risk (SpecRisk) *)

\* C23: the answer for a task without a due date has daysLeft null, the
\* risk level low and no recommendation, whatever the complexity.
C23_NoDueDateIsLow ==
    (riskCall.state = "fulfilled" /\ riskCall.due = Null) =>
        /\ riskCall.data[1].daysLeft = Null
        /\ riskCall.data[1].riskLevel = "low"
        /\ riskCall.data[1].recommendations = << >>

\* A call without a due date and with high complexity was answered.
C23_Witness ==
    /\ riskCall.state = "fulfilled"
    /\ riskCall.due = Null
    /\ riskCall.complexity = "high"

ComplexityRank(complexity) ==
    IF complexity = "low" THEN 1 ELSE IF complexity = "medium" THEN 2 ELSE 3

Distance(a, b) == IF a >= b THEN a - b ELSE b - a

\* C24: the level answered for a due date is on the scale low < medium <
\* high < critical < overdue, is at most one step away from the base level
\* of its daysLeft, and is not below the level of the same daysLeft at a
\* lower complexity nor above the level at a higher complexity.
C24_EscalationMonotonic ==
    (riskCall.state = "fulfilled" /\ riskCall.due # Null) =>
        LET answer == riskCall.data[1]
            today == now \div TicksPerDay
        IN  /\ answer.riskLevel \in RiskLevels
            /\ Distance(RiskRank(answer.riskLevel),
                        RiskRank(BaseRisk(answer.daysLeft[1]))) <= 1
            /\ \A c \in Complexities :
                  LET other == DeadlineRisk(riskCall.due, c, today)
                  IN  /\ other.daysLeft = answer.daysLeft
                      /\ ComplexityRank(c) <= ComplexityRank(riskCall.complexity)
                            => RiskRank(other.riskLevel) <= RiskRank(answer.riskLevel)
                      /\ ComplexityRank(c) >= ComplexityRank(riskCall.complexity)
                            => RiskRank(other.riskLevel) >= RiskRank(answer.riskLevel)

\* A task due today at high complexity was answered overdue, one step above
\* its base level critical and at the top of the scale.
C24_Witness ==
    /\ riskCall.state = "fulfilled"
    /\ riskCall.due # Null
    /\ riskCall.complexity = "high"
    /\ riskCall.data[1].daysLeft = Some(0)
    /\ riskCall.data[1].riskLevel = "overdue"

----------------------------------------------------------------------------
(* Properties of overlapping runs of the effect (SpecOverlap) *)

\* Every call of every run has settled and every run has come to its end.
AllRunsDone ==
    /\ earlier # Null
    /\ earlier[1].pcInsights = "done"
    /\ earlier[1].pcAdvanced = "done"
    /\ pcInsights = "done"
    /\ pcAdvanced = "done"

\* C25: when the project list changed while calls of an earlier run were
\* pending, then once every call of every run has settled the summary, the
\* alerts and the recommendations on display are those the run over the
\* latest project list computed, not those of the earlier run.
C25_LatestRunDisplayed ==
    AllRunsDone =>
        /\ insights = Some([taskInsights |-> taskInsights,
                            summary |-> generateSummaryInsights(taskInsights)])
        /\ riskAlerts = alerts
        /\ aiRecommendations = generateAIRecommendations(AllTasks(projects), now)

====
